---- MODULE Spec2Model ----
(***************************************************************************)
(* DocuScan: the chat session state machine of main.py.                    *)
(*                                                                         *)
(* Each chat connection owns a key-value session store (cl.user_session)   *)
(* with the keys "pdf_content" (the spec's documentText) and               *)
(* "chat_history" (the spec's history).  The handlers start, main and      *)
(* process_query read and write that store and on_chat_end saves the       *)
(* history to chat_history.json; the file upload, the PDF extractor's      *)
(* failures and the completion call are the environment.                   *)
(*                                                                         *)
(* Strings are TLA+ strings; lower(), the "in" tests and the prompt        *)
(* f-string are computed character by character.                           *)
(*                                                                         *)
(* Modelling decisions:                                                    *)
(*  - a handler runs from one await on the environment to the next as one  *)
(*    step; one message of a session is in flight at a time (pc);          *)
(*  - cl.Message(...).send()/update() of a plain chat message is reliable; *)
(*    the awaited file upload and the completion call can fail;            *)
(*  - cl.user_session.get returns the stored object itself (the store is a *)
(*    Python dict), so appending to a list obtained from it changes the    *)
(*    stored list.                                                         *)
(***************************************************************************)
EXTENDS Integers, Sequences, FiniteSets, TLC

\* Largest history length the model lets a session reach.
MaxHist == 5

Sessions == {1}

\* The chat connections there can be; Spec follows the one of Sessions
AllSessions == {1, 2}

VARIABLES
    user_session,      \* s -> the session store (a dict: key -> value)
    pc,                \* s -> where the handler of the message in flight waits
    message,           \* s -> content of the message in flight
    history,           \* s -> process_query's local list "history"
    aliased,           \* s -> TRUE iff that local list is the stored list object
    pdf_text,          \* s -> main's local "pdf_text", "" until the extractor ran
    thinking,          \* s -> index in out[s] of process_query's thinking_msg
    handler,           \* s -> the handler that ran last: "none", "start", "main"
                       \*      or "on_chat_end"
    out,               \* s -> what the handler in flight has sent to the user
    calls,             \* s -> "messages" arguments of the completion calls it made
    before,            \* s -> the session store when the handler in flight began
    uploaded,          \* s -> what the user sent in answer to its upload request
    raised,            \* s -> the exception it caught, "" if none
    saved              \* the text of the file chat_history.json, "" while there is none

vars == <<user_session, pc, message, history, aliased, pdf_text, thinking, handler,
          out, calls, before, uploaded, raised, saved>>

---------------------------------------------------------------------------
\* Python string operations

UpperCase == "ABCDEFGHIJKLMNOPQRSTUVWXYZ"
LowerCase == "abcdefghijklmnopqrstuvwxyz"

\* str.lower() on one character
LowerChar(c) ==
    IF \E i \in 1..26 : SubSeq(UpperCase, i, i) = c
    THEN LET i == CHOOSE j \in 1..26 : SubSeq(UpperCase, j, j) = c
         IN  SubSeq(LowerCase, i, i)
    ELSE c

\* str.lower()
RECURSIVE lower(_)
lower(s) ==
    IF s = "" THEN ""
    ELSE LowerChar(SubSeq(s, 1, 1)) \o lower(SubSeq(s, 2, Len(s)))

\* Python's "p in s" for strings: p occurs in s as a substring
Contains(p, s) ==
    \E i \in 1..(Len(s) - Len(p) + 1) : SubSeq(s, i, i + Len(p) - 1) = p

---------------------------------------------------------------------------
\* The phrase lists

\* main.py:61
upload_intents == {"upload pdf", "new pdf", "analyze another pdf", "upload another pdf"}

\* main.py:72-77
identity_questions ==
    {"what is your name", "who are you", "who created you", "what do you do",
     "what can you help me with", "what are you", "who made you", "what's your name",
     "what are your capabilities", "what's your purpose", "what is your purpose",
     "what are you for", "what can you do"}

\* main.py:143 with "another document" left out of the list
switch_phrases_without_another_document ==
    {"analyze another pdf", "upload another pdf", "new pdf", "different pdf"}

\* main.py:143 with "different pdf" left out of the list
switch_phrases_without_different_pdf ==
    {"analyze another pdf", "upload another pdf", "new pdf", "another document"}

\* main.py:143
switch_phrases ==
    {"analyze another pdf", "upload another pdf", "new pdf", "different pdf",
     "another document"}

---------------------------------------------------------------------------
\* Texts sent to the user

welcome_message ==
    "Welcome! I am DocuScan AI and created by Yusra Saleem. I specialize in analyzing PDF documents you can ask me any thing about your PDF document.\n\nI can help you:\n- Analyze PDF documents\n- Answer questions about document content\n- Extract key information\n- Process multiple PDFs (just ask to upload another one anytime!)\n\nPlease upload a PDF file to get started."

identity_response ==
    "I am Yusra's Assistant, created by Yusra Saleem. I specialize in analyzing PDF documents.\n\nMy main capabilities include:\n- Reading and analyzing PDF documents\n- Answering questions about document content\n- Extracting key information from documents\n- Helping users understand complex documents\n\nI'm here to help you better understand any PDF documents you share with me. Feel free to upload a PDF and ask me questions about it."

ask_file_content == "Please upload a PDF file to analyze!"

upload_msg == "Sure! I can help you analyze another PDF. Please upload the new PDF file."

no_file_msg == "No file uploaded. Please try again."

extract_error_msg == "Error: Could not extract text from the PDF. Please upload a valid PDF file."

no_pdf_msg == "Error: No PDF content available. Please upload a PDF first."

\* cl.Message(content=c)
Message(c) == [type |-> "Message", content |-> c]

\* cl.AskFileMessage(content=..., accept=pdf, max_files=1, timeout=120)
AskFileMessage == [type |-> "AskFileMessage", content |-> ask_file_content]

\* main.py:116
processed_msg(name) ==
    "PDF '" \o name \o "' processed successfully! Ask me questions about the document."

\* main.py:124
file_error_msg(e) == "An error occurred while processing the file: " \o e

\* main.py:185
completion_error_msg(e) == "Error: " \o e

\* main.py:157-163 with the {pdf_content} field left out of the f-string
prompt_without_document(pdf_content, query) ==
    "You are Yusra's Assistant created by Yusra Saleem. Use the following PDF content to answer the user's question.\nI want you to analyze the PDF content carefully and provide accurate, helpful responses.\n\nPDF Content:\n"
    \o "\n\nUser Question: " \o query

\* main.py:157-163, the combined prompt
prompt(pdf_content, query) ==
    "You are Yusra's Assistant created by Yusra Saleem. Use the following PDF content to answer the user's question.\nI want you to analyze the PDF content carefully and provide accurate, helpful responses.\n\nPDF Content:\n"
    \o pdf_content \o "\n\nUser Question: " \o query

user_entry(content) == [role |-> "user", content |-> content]
assistant_entry(content) == [role |-> "assistant", content |-> content]

---------------------------------------------------------------------------
\* The PDF extractor

\* An uploaded file: its name, whether fitz.open succeeds, the text of each
\* page, and the page whose get_text() raises (0: none does).
report_pdf  == [name |-> "report.pdf", opens |-> TRUE, pages |-> <<"Revenue: $5M">>, bad |-> 0]
costs_pdf   == [name |-> "costs.pdf", opens |-> TRUE, pages |-> <<"Costs: ", "$2M">>, bad |-> 0]
scanned_pdf == [name |-> "scanned.pdf", opens |-> TRUE, pages |-> <<"", "">>, bad |-> 0]
torn_pdf    == [name |-> "torn.pdf", opens |-> TRUE, pages |-> <<"Costs: ", "$2M">>, bad |-> 2]
locked_pdf  == [name |-> "locked.pdf", opens |-> FALSE, pages |-> <<"Revenue: $5M">>, bad |-> 0]

Files == {report_pdf, costs_pdf, scanned_pdf, torn_pdf, locked_pdf}

\* main.py:23-30 with the except clause returning the text read so far
RECURSIVE extract_pages_keeping_read(_, _, _)
extract_pages_keeping_read(pdf, i, text) ==
    IF i > Len(pdf.pages) THEN text
    ELSE IF pdf.bad = i THEN text
    ELSE extract_pages_keeping_read(pdf, i + 1, text \o pdf.pages[i])

\* main.py:23-27, the loop over the pages from page i on, text read so far;
\* an exception in get_text() leaves the loop for the except clause (29-30)
RECURSIVE extract_pages(_, _, _)
extract_pages(pdf, i, text) ==
    IF i > Len(pdf.pages) THEN text
    ELSE IF pdf.bad = i THEN ""
    ELSE extract_pages(pdf, i + 1, text \o pdf.pages[i])

\* main.py:17-30
extract_text_from_pdf(pdf) ==
    IF ~pdf.opens THEN "" ELSE extract_pages(pdf, 1, "")

---------------------------------------------------------------------------
\* The environment's inputs

Messages ==
    {"upload pdf", "New PDF", "who are you", "what is the revenue?",
     "let's try a different document", "let's try another document",
     "Please analyze another PDF", "upload another pdf!", "renew pdf",
     "a Different PDF", "Who are you? new pdf", "please upload pdf"}

\* What the completion call returns, and the errors it or the upload raise
Replies == {"$5M", "The document does not say."}
Errors == {"timeout"}

\* What an awaited AskFileMessage returns: None (nothing sent before the
\* timeout), modelled as <<>>, or a list of one file
Uploads == {<<>>} \cup {<<f>> : f \in Files}

---------------------------------------------------------------------------
\* The tests main and process_query make on a message.  Each is evaluated
\* once for every message of the alphabet; the handlers look the result up.

\* main.py:61 with the phrases looked for inside the message, as at 79 and 143
upload_intent_messages_by_substring ==
    {m \in Messages : LET text == lower(m) IN
                      \E phrase \in upload_intents : Contains(phrase, text)}

\* main.py:61  message.content.lower() in [...]
upload_intent_messages == {m \in Messages : lower(m) \in upload_intents}

\* main.py:79  any(q in message.content.lower() for q in identity_questions)
identity_messages ==
    {m \in Messages : LET text == lower(m) IN
                      \E q \in identity_questions : Contains(q, text)}

\* main.py:143  any(phrase in query.lower() for phrase in [...])
switch_messages ==
    {m \in Messages : LET text == lower(m) IN
                      \E phrase \in switch_phrases : Contains(phrase, text)}

IsUploadIntent(m) == m \in upload_intent_messages
IsIdentityQuestion(m) == m \in identity_messages
IsSwitchRequest(q) == q \in switch_messages

---------------------------------------------------------------------------
\* The session store, cl.user_session

Get(s, key) == user_session[s][key]

Put(store, key, value) == (key :> value) @@ store

\* main.py:62 and 147 resetting the history along with the document
clear_pdf_and_history(store) == Put(Put(store, "pdf_content", ""), "chat_history", <<>>)

\* main.py:62 and 147 with the set("pdf_content", "") left out
clear_pdf_skipped(store) == store

\* main.py:62 and main.py:147, cl.user_session.set("pdf_content", "")
clear_pdf(store) == Put(store, "pdf_content", "")

\* thinking_msg.content = c; await thinking_msg.update()
Update(s, c) == [out[s] EXCEPT ![thinking[s]] = Message(c)]

\* main.py:61-97 with the loaded-document test (93) ahead of the identity
\* test (79)
route_query_first(m, pdf_content) ==
    IF IsUploadIntent(m) THEN "upload_intent"
    ELSE IF pdf_content # "" THEN "query"
    ELSE IF IsIdentityQuestion(m) THEN "identity"
    ELSE "solicit"

\* main.py:61-97 without the identity test (79-90)
route_without_identity(m, pdf_content) ==
    IF IsUploadIntent(m) THEN "upload_intent"
    ELSE IF pdf_content # "" THEN "query"
    ELSE "solicit"

\* main.py:61-97 without the loaded-document test (92-95): every other
\* message asks for a file
route_always_solicit(m, pdf_content) ==
    IF IsUploadIntent(m) THEN "upload_intent"
    ELSE IF IsIdentityQuestion(m) THEN "identity"
    ELSE "solicit"

\* main.py:61-97 with process_query called whether or not a document is
\* loaded
route_always_query(m, pdf_content) ==
    IF IsUploadIntent(m) THEN "upload_intent"
    ELSE IF IsIdentityQuestion(m) THEN "identity"
    ELSE "query"

\* main.py:61, 79, 93, 97: the branch main takes for message m, first match wins
route(m, pdf_content) ==
    IF IsUploadIntent(m) THEN "upload_intent"
    ELSE IF IsIdentityQuestion(m) THEN "identity"
    ELSE IF pdf_content # "" THEN "query"
    ELSE "solicit"

---------------------------------------------------------------------------
Init ==
    /\ user_session = [s \in AllSessions |-> <<>>]
    /\ pc = [s \in AllSessions |-> "none"]
    /\ message = [s \in AllSessions |-> ""]
    /\ history = [s \in AllSessions |-> <<>>]
    /\ aliased = [s \in AllSessions |-> FALSE]
    /\ pdf_text = [s \in AllSessions |-> ""]
    /\ thinking = [s \in AllSessions |-> 0]
    /\ handler = [s \in AllSessions |-> "none"]
    /\ out = [s \in AllSessions |-> <<>>]
    /\ calls = [s \in AllSessions |-> <<>>]
    /\ before = [s \in AllSessions |-> <<>>]
    /\ uploaded = [s \in AllSessions |-> <<>>]
    /\ raised = [s \in AllSessions |-> ""]
    /\ saved = ""

\* main.py:38-39 writing to one store that all connections share (module
\* globals in place of cl.user_session)
start_on_shared_store(s) ==
    /\ pc[s] = "none"
    /\ user_session' = [t \in AllSessions |->
                           IF t = s \/ pc[t] # "none"
                           THEN Put(Put(user_session[t], "chat_history", <<>>),
                                    "pdf_content", "")
                           ELSE user_session[t]]
    /\ out' = [out EXCEPT ![s] = <<Message(welcome_message)>>]
    /\ handler' = [handler EXCEPT ![s] = "start"]
    /\ before' = [before EXCEPT ![s] = user_session[s]]
    /\ pc' = [pc EXCEPT ![s] = "idle"]
    /\ UNCHANGED <<saved, message, history, aliased, pdf_text, thinking, calls, uploaded, raised>>

\* main.py:33-49, on_chat_start
start(s) ==
    /\ pc[s] = "none"
    /\ user_session' = [user_session EXCEPT
           ![s] = Put(Put(@, "chat_history", <<>>), "pdf_content", "")]
    /\ out' = [out EXCEPT ![s] = <<Message(welcome_message)>>]
    /\ handler' = [handler EXCEPT ![s] = "start"]
    /\ before' = [before EXCEPT ![s] = user_session[s]]
    /\ pc' = [pc EXCEPT ![s] = "idle"]
    /\ UNCHANGED <<saved, message, history, aliased, pdf_text, thinking, calls, uploaded, raised>>

\* main.py:52-104, on_message, up to the handler's first wait on the
\* environment: the file upload (63, 99) or, past the "Thinking..." message
\* of process_query (131-132), the rest of process_query
main(s, m) ==
    /\ pc[s] = "idle"
    /\ Len(Get(s, "chat_history")) + 2 <= MaxHist
    /\ message' = [message EXCEPT ![s] = m]
    /\ handler' = [handler EXCEPT ![s] = "main"]
    /\ before' = [before EXCEPT ![s] = user_session[s]]
    /\ calls' = [calls EXCEPT ![s] = <<>>]
    /\ uploaded' = [uploaded EXCEPT ![s] = <<>>]
    /\ raised' = [raised EXCEPT ![s] = ""]
    /\ history' = [history EXCEPT ![s] = <<>>]
    /\ aliased' = [aliased EXCEPT ![s] = FALSE]
    /\ pdf_text' = [pdf_text EXCEPT ![s] = ""]
    /\ UNCHANGED saved
    /\ LET branch == route(m, Get(s, "pdf_content")) IN
       IF branch = "upload_intent" THEN
            /\ user_session' = [user_session EXCEPT ![s] = clear_pdf(@)]
            /\ out' = [out EXCEPT ![s] = <<AskFileMessage>>]
            /\ thinking' = [thinking EXCEPT ![s] = 0]
            /\ pc' = [pc EXCEPT ![s] = "ask_intent"]
       ELSE IF branch = "identity" THEN
            /\ out' = [out EXCEPT ![s] = <<Message(identity_response)>>]
            /\ thinking' = [thinking EXCEPT ![s] = 0]
            /\ pc' = [pc EXCEPT ![s] = "idle"]
            /\ UNCHANGED user_session
       ELSE IF branch = "query" THEN
            /\ out' = [out EXCEPT ![s] = <<Message("Thinking...")>>]
            /\ thinking' = [thinking EXCEPT ![s] = 1]
            /\ pc' = [pc EXCEPT ![s] = "process_query"]
            /\ UNCHANGED user_session
       ELSE
            /\ out' = [out EXCEPT ![s] = <<AskFileMessage>>]
            /\ thinking' = [thinking EXCEPT ![s] = 0]
            /\ pc' = [pc EXCEPT ![s] = "ask_file"]
            /\ UNCHANGED user_session

\* main.py:63-69: the upload asked for after an upload-intent phrase
\* returns; its result is not assigned and the handler returns
intent_ask_returns(s, files) ==
    /\ pc[s] = "ask_intent"
    /\ uploaded' = [uploaded EXCEPT ![s] = files]
    /\ pc' = [pc EXCEPT ![s] = "idle"]
    /\ UNCHANGED <<saved, user_session, message, history, aliased, pdf_text, thinking,
                   handler, out, calls, before, raised>>

\* main.py:104-118 with pdf_file.name stored (115) in place of pdf_text
file_ask_returns_storing_name(s, files) ==
    /\ pc[s] = "ask_file"
    /\ uploaded' = [uploaded EXCEPT ![s] = files]
    /\ IF files = <<>> THEN
            /\ out' = [out EXCEPT ![s] = Append(@, Message(no_file_msg))]
            /\ UNCHANGED <<user_session, pdf_text>>
       ELSE LET pdf_file == files[1]
                text == extract_text_from_pdf(pdf_file)
            IN  /\ pdf_text' = [pdf_text EXCEPT ![s] = text]
                /\ IF text # "" THEN
                        /\ user_session' = [user_session EXCEPT
                               ![s] = Put(@, "pdf_content", pdf_file.name)]
                        /\ out' = [out EXCEPT
                               ![s] = Append(@, Message(processed_msg(pdf_file.name)))]
                   ELSE
                        /\ out' = [out EXCEPT
                               ![s] = Append(@, Message(extract_error_msg))]
                        /\ UNCHANGED user_session
    /\ pc' = [pc EXCEPT ![s] = "idle"]
    /\ UNCHANGED <<saved, message, history, aliased, thinking, handler, calls, before, raised>>

\* main.py:104-118: the upload asked for without a document returns
file_ask_returns(s, files) ==
    /\ pc[s] = "ask_file"
    /\ uploaded' = [uploaded EXCEPT ![s] = files]
    /\ IF files = <<>> THEN
            /\ out' = [out EXCEPT ![s] = Append(@, Message(no_file_msg))]
            /\ UNCHANGED <<user_session, pdf_text>>
       ELSE LET pdf_file == files[1]
                text == extract_text_from_pdf(pdf_file)
            IN  /\ pdf_text' = [pdf_text EXCEPT ![s] = text]
                /\ IF text # "" THEN
                        /\ user_session' = [user_session EXCEPT
                               ![s] = Put(@, "pdf_content", text)]
                        /\ out' = [out EXCEPT
                               ![s] = Append(@, Message(processed_msg(pdf_file.name)))]
                   ELSE
                        /\ out' = [out EXCEPT
                               ![s] = Append(@, Message(extract_error_msg))]
                        /\ UNCHANGED user_session
    /\ pc' = [pc EXCEPT ![s] = "idle"]
    /\ UNCHANGED <<saved, message, history, aliased, thinking, handler, calls, before, raised>>

\* main.py:122-124 with the exception only printed (123), not sent (124)
file_ask_raises_silently(s, files, e) ==
    /\ pc[s] = "ask_file"
    /\ uploaded' = [uploaded EXCEPT ![s] = files]
    /\ raised' = [raised EXCEPT ![s] = e]
    /\ pc' = [pc EXCEPT ![s] = "idle"]
    /\ UNCHANGED <<saved, user_session, message, history, aliased, pdf_text, thinking,
                   handler, out, calls, before>>

\* main.py:122-124: the upload, or the handling of the file it returned
\* (99-112), raises e
file_ask_raises(s, files, e) ==
    /\ pc[s] = "ask_file"
    /\ uploaded' = [uploaded EXCEPT ![s] = files]
    /\ raised' = [raised EXCEPT ![s] = e]
    /\ out' = [out EXCEPT ![s] = Append(@, Message(file_error_msg(e)))]
    /\ pc' = [pc EXCEPT ![s] = "idle"]
    /\ UNCHANGED <<saved, user_session, message, history, aliased, pdf_text, thinking,
                   handler, calls, before>>

\* main.py:134-168: process_query after its "Thinking..." message, up to the
\* switch-document upload request (148) or into the completion call (168)
process_query(s) ==
    /\ pc[s] = "process_query"
    /\ LET query == message[s]
           pdf_content == Get(s, "pdf_content")
           stored == Get(s, "chat_history")
       IN
       IF pdf_content = "" THEN
            /\ out' = [out EXCEPT ![s] = Update(s, no_pdf_msg)]
            /\ pc' = [pc EXCEPT ![s] = "idle"]
            /\ UNCHANGED <<user_session, history, aliased, calls>>
       ELSE IF IsSwitchRequest(query) THEN
            /\ history' = [history EXCEPT ![s] = stored]
            /\ aliased' = [aliased EXCEPT ![s] = (stored # <<>>)]
            /\ out' = [out EXCEPT ![s] = Append(Update(s, upload_msg), AskFileMessage)]
            /\ user_session' = [user_session EXCEPT ![s] = clear_pdf(@)]
            /\ pc' = [pc EXCEPT ![s] = "ask_switch"]
            /\ UNCHANGED calls
       ELSE LET entry == user_entry(prompt(pdf_content, query))
                \* "get(...) or []": a non-empty stored list is the list
                \* itself, an empty one is replaced by a new list
                shared == (stored # <<>>)
            IN  /\ history' = [history EXCEPT ![s] = Append(stored, entry)]
                /\ aliased' = [aliased EXCEPT ![s] = shared]
                /\ user_session' =
                       IF shared
                       THEN [user_session EXCEPT
                                ![s] = Put(@, "chat_history", Append(stored, entry))]
                       ELSE user_session
                /\ calls' = [calls EXCEPT ![s] = Append(@, Append(stored, entry))]
                /\ pc' = [pc EXCEPT ![s] = "completion"]
                /\ UNCHANGED out
    /\ UNCHANGED <<saved, message, pdf_text, thinking, handler, before, uploaded, raised>>

\* main.py:148-154: the upload asked for after a switch-document phrase
\* returns; its result is not assigned and process_query returns
switch_ask_returns(s, files) ==
    /\ pc[s] = "ask_switch"
    /\ uploaded' = [uploaded EXCEPT ![s] = files]
    /\ pc' = [pc EXCEPT ![s] = "idle"]
    /\ UNCHANGED <<saved, user_session, message, history, aliased, pdf_text, thinking,
                   handler, out, calls, before, raised>>

\* main.py:168-182 without the append of the assistant entry (178)
completion_returns_without_assistant(s, response_content) ==
    /\ pc[s] = "completion"
    /\ out' = [out EXCEPT ![s] = Update(s, response_content)]
    /\ user_session' = [user_session EXCEPT ![s] = Put(@, "chat_history", history[s])]
    /\ pc' = [pc EXCEPT ![s] = "idle"]
    /\ UNCHANGED <<saved, message, history, aliased, pdf_text, thinking, handler, calls,
                   before, uploaded, raised>>

\* main.py:168-182: the completion call returns response_content
completion_returns(s, response_content) ==
    /\ pc[s] = "completion"
    /\ out' = [out EXCEPT ![s] = Update(s, response_content)]
    /\ LET h == Append(history[s], assistant_entry(response_content)) IN
       /\ history' = [history EXCEPT ![s] = h]
       /\ user_session' = [user_session EXCEPT ![s] = Put(@, "chat_history", h)]
    /\ pc' = [pc EXCEPT ![s] = "idle"]
    /\ UNCHANGED <<saved, message, aliased, pdf_text, thinking, handler, calls, before,
                   uploaded, raised>>

\* main.py:184-187: the completion call raises e
completion_raises(s, e) ==
    /\ pc[s] = "completion"
    /\ raised' = [raised EXCEPT ![s] = e]
    /\ out' = [out EXCEPT ![s] = Update(s, completion_error_msg(e))]
    /\ pc' = [pc EXCEPT ![s] = "idle"]
    /\ UNCHANGED <<saved, user_session, message, history, aliased, pdf_text, thinking,
                   handler, calls, before, uploaded>>

---------------------------------------------------------------------------
\* json.dump(history, f, indent=2)

\* One character inside a JSON string (the alphabet is printable ASCII and
\* the newline)
json_escape(c) ==
    IF c = "\"" THEN "\\\""
    ELSE IF c = "\\" THEN "\\\\"
    ELSE IF c = "\n" THEN "\\n"
    ELSE c

\* The characters of a JSON string, without the quotes around them: every
\* character escaped, in order (the string is split in halves)
RECURSIVE json_string(_)
json_string(str) ==
    IF str = "" THEN ""
    ELSE IF Len(str) = 1 THEN json_escape(str)
    ELSE LET half == Len(str) \div 2 IN
         json_string(SubSeq(str, 1, half)) \o json_string(SubSeq(str, half + 1, Len(str)))

\* The strings the entries of a history can hold, encoded once
encoded_strings ==
    [str \in {"user", "assistant"} \cup Replies
              \cup {prompt(extract_text_from_pdf(f), m) : f \in Files, m \in Messages}
     |-> json_string(str)]

json_encode(str) ==
    "\"" \o (IF str \in DOMAIN encoded_strings THEN encoded_strings[str]
             ELSE json_string(str)) \o "\""

\* One {role, content} dict at indent 2, keys in insertion order (164, 178)
json_entry(entry) ==
    "  {\n    \"role\": " \o json_encode(entry.role)
    \o ",\n    \"content\": " \o json_encode(entry.content) \o "\n  }"

RECURSIVE json_items(_)
json_items(list) ==
    IF Len(list) = 1 THEN json_entry(list[1])
    ELSE json_entry(list[1]) \o ",\n" \o json_items(Tail(list))

\* main.py:197
json_dump(list) ==
    IF list = <<>> THEN "[]" ELSE "[\n" \o json_items(list) \o "\n]"

\* main.py:190-198, on_chat_end
on_chat_end(s) ==
    /\ pc[s] = "idle"
    /\ saved' = json_dump(Get(s, "chat_history"))
    /\ handler' = [handler EXCEPT ![s] = "on_chat_end"]
    /\ pc' = [pc EXCEPT ![s] = "ended"]
    /\ UNCHANGED <<user_session, message, history, aliased, pdf_text, thinking, out,
                   calls, before, uploaded, raised>>

Next ==
    \E s \in Sessions :
        \/ start(s)
        \/ \E m \in Messages : main(s, m)
        \/ \E files \in Uploads : intent_ask_returns(s, files)
        \/ \E files \in Uploads : file_ask_returns(s, files)
        \/ \E files \in Uploads, e \in Errors : file_ask_raises(s, files, e)
        \/ process_query(s)
        \/ \E files \in Uploads : switch_ask_returns(s, files)
        \/ \E r \in Replies : completion_returns(s, r)
        \/ \E e \in Errors : completion_raises(s, e)
        \/ on_chat_end(s)

Spec == Init /\ [][Next]_vars

---------------------------------------------------------------------------
\* Two connections at once, their events interleaved in every order, on a
\* smaller alphabet

\* Largest history length a session reaches when two run together
MaxSharedHist == 4

SharedMessages == {"what is the revenue?", "upload pdf", "renew pdf", "who are you"}
SharedUploads == {<<>>, <<report_pdf>>, <<costs_pdf>>}
SharedReplies == {"$5M"}

NextSessions ==
    \E s \in AllSessions :
        \/ start(s)
        \/ \E m \in SharedMessages :
              /\ pc[s] = "idle"
              /\ Len(Get(s, "chat_history")) + 2 <= MaxSharedHist
              /\ main(s, m)
        \/ \E files \in SharedUploads : intent_ask_returns(s, files)
        \/ \E files \in SharedUploads : file_ask_returns(s, files)
        \/ \E files \in SharedUploads, e \in Errors : file_ask_raises(s, files, e)
        \/ process_query(s)
        \/ \E files \in SharedUploads : switch_ask_returns(s, files)
        \/ \E r \in SharedReplies : completion_returns(s, r)
        \/ \E e \in Errors : completion_raises(s, e)

SpecSessions == Init /\ [][NextSessions]_vars

---------------------------------------------------------------------------
\* The extractor on every PDF of up to MaxPages pages, with every point at
\* which opening it or reading a page can fail

\* Largest number of pages of a PDF
MaxPages == 3

PageTexts == {"", "Revenue: ", "$5M"}

PageLists == UNION {[1..n -> PageTexts] : n \in 0..MaxPages}

Pdfs ==
    {[name |-> "upload.pdf", opens |-> o, pages |-> p, bad |-> b] :
        o \in BOOLEAN, p \in PageLists, b \in 0..MaxPages}

NextExtract ==
    \E s \in Sessions :
        \/ start(s)
        \/ \E m \in {"what is the revenue?"} : main(s, m)
        \/ \E f \in {pdf \in Pdfs : pdf.bad <= Len(pdf.pages)} : file_ask_returns(s, <<f>>)

SpecExtract == Init /\ [][NextExtract]_vars

---------------------------------------------------------------------------
\* Vocabulary of the properties

\* The spec's documentText and history of session s
documentText(s) == user_session[s].pdf_content
storedHistory(s) == user_session[s].chat_history

\* The handler of message[s] has returned
Returned(s) == handler[s] = "main" /\ pc[s] = "idle"

\* message[s] was passed to the query handler
QueryHandled(s) == handler[s] = "main" /\ thinking[s] = 1

\* The phrase lists as the specification words them
UploadIntentPhrases ==
    {"upload pdf", "new pdf", "analyze another pdf", "upload another pdf"}
SwitchDocumentPhrases ==
    {"analyze another pdf", "upload another pdf", "new pdf", "different pdf",
     "another document"}

\* Messages that are a case-insensitive exact match of an upload-intent phrase
UploadIntentMessages == {m \in Messages : lower(m) \in UploadIntentPhrases}

\* Messages whose lower-cased text contains a switch-document phrase
SwitchDocumentMessages ==
    {m \in Messages : \E p \in SwitchDocumentPhrases : Contains(p, lower(m))}

\* The non-empty texts the extractor yields on the files of the alphabet
DocumentTexts == {extract_text_from_pdf(f) : f \in Files} \ {""}

\* The combined prompt of the query in flight
CombinedPrompt(s) == prompt(before[s].pdf_content, message[s])

---------------------------------------------------------------------------
\* C1: after a query without switch-document phrase whose completion call
\* failed, the stored history is the prior history followed by exactly one
\* entry, the user entry with the combined prompt; for every prior history,
\* the empty one included.
C1_FailedQueryKeepsUserEntry ==
    \A s \in Sessions :
        (Returned(s) /\ QueryHandled(s) /\ calls[s] # <<>> /\ raised[s] # "")
        => storedHistory(s) = Append(before[s].chat_history, user_entry(CombinedPrompt(s)))

\* C2: after a query without switch-document phrase whose completion call
\* returned reply r, the stored history is the prior history followed by
\* exactly two entries: the user entry with the combined prompt, then the
\* assistant entry with r; r is what the user is shown.
C2_AnsweredQueryAppendsUserThenAssistant ==
    \A s \in Sessions :
        (Returned(s) /\ QueryHandled(s) /\ calls[s] # <<>> /\ raised[s] = "")
        => \E r \in Replies :
              /\ out[s] = <<Message(r)>>
              /\ storedHistory(s) = before[s].chat_history \o
                     <<user_entry(CombinedPrompt(s)), assistant_entry(r)>>

\* a query answered on a history that an earlier failure left asymmetric
C2_Witness ==
    \E s \in Sessions :
        /\ Returned(s) /\ QueryHandled(s) /\ calls[s] # <<>> /\ raised[s] = ""
        /\ Len(before[s].chat_history) = 3
        /\ before[s].chat_history[3].role = "user"
        /\ Len(storedHistory(s)) = 5

\* What the handling of a switch-document request leaves behind in session s
SwitchOutcome(s) ==
    /\ documentText(s) = ""
    /\ out[s] = <<Message(upload_msg), AskFileMessage>>
    /\ calls[s] = <<>>
    /\ storedHistory(s) = before[s].chat_history

\* C3 as stated: in a READY session "let's try a different document" is
\* handled as a switch-document request.
C3_DifferentDocumentSwitches ==
    \A s \in Sessions :
        ( /\ handler[s] = "main"
          /\ message[s] = "let's try a different document"
          /\ before[s].pdf_content # ""
          /\ pc[s] \in {"ask_switch", "idle"} )
        => SwitchOutcome(s)

\* C3 amended: in a READY session "let's try another document" is handled as
\* a switch-document request: documentText cleared, re-upload prompt shown,
\* no completion call, history unchanged.
C3_AnotherDocumentSwitches ==
    \A s \in Sessions :
        ( /\ handler[s] = "main"
          /\ message[s] = "let's try another document"
          /\ before[s].pdf_content # ""
          /\ pc[s] \in {"ask_switch", "idle"} )
        => SwitchOutcome(s)

C3_Witness ==
    \E s \in Sessions :
        /\ Returned(s)
        /\ message[s] = "let's try another document"
        /\ before[s].pdf_content # ""
        /\ before[s].chat_history # <<>>

\* C4: a message that is not an exact upload-intent phrase and whose
\* lower-cased text contains an identity question gets the fixed identity
\* reply and nothing else: documentText and history unchanged, no upload
\* asked for, no completion call; so in both states.
C4_IdentityQuestionTouchesNothing ==
    \A s \in Sessions :
        ( /\ handler[s] = "main"
          /\ message[s] \notin UploadIntentMessages
          /\ message[s] \in identity_messages )
        => /\ pc[s] = "idle"
           /\ out[s] = <<Message(identity_response)>>
           /\ user_session[s] = before[s]
           /\ calls[s] = <<>>

\* an identity question in READY with a history, and one in a fresh session
C4_Witness ==
    \E s \in Sessions :
        /\ Returned(s)
        /\ message[s] = "who are you"
        /\ documentText(s) # ""
        /\ storedHistory(s) # <<>>

\* C5: documentText is empty right after chat start, and after the handling
\* of an exact (case-insensitive) upload-intent phrase, whatever the state
\* before; that handling asks for an upload and leaves history unchanged.
C5_EmptyAfterStartAndUploadIntent ==
    \A s \in Sessions :
        /\ handler[s] = "start" => documentText(s) = ""
        /\ (handler[s] = "main" /\ message[s] \in UploadIntentMessages)
           => /\ documentText(s) = ""
              /\ out[s] = <<AskFileMessage>>
              /\ storedHistory(s) = before[s].chat_history

\* "New PDF" received in READY
C5_Witness ==
    \E s \in Sessions :
        /\ Returned(s)
        /\ message[s] = "New PDF"
        /\ before[s].pdf_content # ""
        /\ before[s].chat_history # <<>>

\* C6: when the controller's extraction of a received file yields non-empty
\* text, the session was AWAITING_UPLOAD, is READY afterwards with exactly
\* the extractor's output stored, and history is unchanged.
C6_ExtractedTextStoredVerbatim ==
    \A s \in Sessions :
        pdf_text[s] # ""
        => /\ before[s].pdf_content = ""
           /\ uploaded[s] # <<>>
           /\ pdf_text[s] = extract_text_from_pdf(uploaded[s][1])
           /\ documentText(s) = pdf_text[s]
           /\ storedHistory(s) = before[s].chat_history

\* the two pages of costs.pdf stored as one text, with a history present
C6_Witness ==
    \E s \in Sessions :
        /\ uploaded[s] = <<costs_pdf>>
        /\ pdf_text[s] = "Costs: $2M"
        /\ documentText(s) = "Costs: $2M"
        /\ storedHistory(s) # <<>>

\* C7: a valid PDF supplied in answer to any upload request of the system,
\* in AWAITING_UPLOAD, makes the session READY with that PDF's text.
C7_ValidUploadMakesReady ==
    \A s \in Sessions :
        ( /\ Returned(s)
          /\ uploaded[s] # <<>>
          /\ raised[s] = ""
          /\ extract_text_from_pdf(uploaded[s][1]) # "" )
        => documentText(s) = extract_text_from_pdf(uploaded[s][1])

DocumentQueryPrompts ==
    {prompt(d, q) : d \in DocumentTexts,
                    q \in Messages \ (UploadIntentMessages \cup SwitchDocumentMessages
                                       \cup identity_messages)}

\* C9: every history entry is a user entry holding the combined prompt of a
\* document query or an assistant entry holding a completion reply; the
\* handling of an upload request or of an identity question adds no entry.
C9_HistoryHoldsOnlyQueryExchanges ==
    \A s \in Sessions :
        pc[s] # "none"
        => /\ \A i \in 1..Len(storedHistory(s)) :
                 LET entry == storedHistory(s)[i] IN
                 \/ entry.role = "user" /\ entry.content \in DocumentQueryPrompts
                 \/ entry.role = "assistant" /\ entry.content \in Replies
           /\ ( /\ handler[s] = "main"
                /\ message[s] \in UploadIntentMessages \cup SwitchDocumentMessages
                                  \cup identity_messages )
              => storedHistory(s) = before[s].chat_history

\* an identity question that also holds a switch-document phrase, received
\* in READY with a history
C9_Witness ==
    \E s \in Sessions :
        /\ Returned(s)
        /\ message[s] = "Who are you? new pdf"
        /\ before[s].pdf_content # ""
        /\ Len(storedHistory(s)) >= 2

\* C10: the query handler, entered in READY with a query whose lower-cased
\* text contains one of the five switch-document phrases, clears
\* documentText, prompts for a re-upload, makes no completion call and
\* leaves history unchanged.
C10_SwitchPhraseClearsWithoutCompletion ==
    \A s \in Sessions :
        ( /\ QueryHandled(s)
          /\ before[s].pdf_content # ""
          /\ message[s] \in SwitchDocumentMessages
          /\ pc[s] \in {"ask_switch", "idle"} )
        => SwitchOutcome(s)

C10_Witness ==
    \E s \in Sessions :
        /\ QueryHandled(s)
        /\ Returned(s)
        /\ message[s] = "a Different PDF"
        /\ before[s].chat_history # <<>>
        /\ uploaded[s] = <<report_pdf>>

\* C11: every message is classified in strict priority order, first match
\* wins: (1) exact upload-intent phrase, (2) identity question by substring,
\* (3) the query handler if documentText is non-empty, (4) otherwise the
\* upload request; the handler does what that one class asks and nothing of
\* the other three.
C11_FirstMatchWins ==
    \A s \in Sessions :
        handler[s] = "main"
        => IF message[s] \in UploadIntentMessages THEN
                /\ pc[s] \in {"ask_intent", "idle"}
                /\ out[s] = <<AskFileMessage>>
                /\ documentText(s) = ""
                /\ thinking[s] = 0 /\ calls[s] = <<>> /\ pdf_text[s] = ""
           ELSE IF message[s] \in identity_messages THEN
                /\ pc[s] = "idle"
                /\ out[s] = <<Message(identity_response)>>
                /\ user_session[s] = before[s]
                /\ thinking[s] = 0 /\ calls[s] = <<>> /\ uploaded[s] = <<>>
           ELSE IF before[s].pdf_content # "" THEN
                /\ pc[s] \in {"process_query", "ask_switch", "completion", "idle"}
                /\ thinking[s] = 1
                /\ out[s][1].type = "Message"
                /\ out[s][1] # Message(identity_response)
                /\ pdf_text[s] = ""
           ELSE
                /\ pc[s] \in {"ask_file", "idle"}
                /\ out[s][1] = AskFileMessage
                /\ pc[s] = "idle" => Len(out[s]) = 2
                /\ thinking[s] = 0 /\ calls[s] = <<>>

\* READY, a message holding an identity question and a switch-document
\* phrase: the identity reply is sent and the document is kept
C11_Witness ==
    \E s \in Sessions :
        /\ handler[s] = "main"
        /\ message[s] = "Who are you? new pdf"
        /\ out[s] = <<Message(identity_response)>>
        /\ documentText(s) = "Revenue: $5M"

\* C12: the message sequence passed to the completion call is the session's
\* full history before the query followed by one user entry whose content
\* holds the complete documentText and the raw query; and with an empty
\* history, documentText "Revenue: $5M" and the reply "$5M", the history
\* afterwards is that user entry followed by the assistant entry "$5M".
C12_CompletionGetsHistoryAndPrompt ==
    \A s \in Sessions :
        calls[s] # <<>>
        => /\ Len(calls[s]) = 1
           /\ LET messages == calls[s][1]
                  last == messages[Len(messages)]
              IN  /\ messages = Append(before[s].chat_history, last)
                  /\ last.role = "user"
                  /\ Contains(before[s].pdf_content, last.content)
                  /\ Contains(message[s], last.content)
                  /\ ( /\ before[s].chat_history = <<>>
                       /\ before[s].pdf_content = "Revenue: $5M"
                       /\ pc[s] = "idle"
                       /\ out[s] = <<Message("$5M")>> )
                     => storedHistory(s) = <<last, assistant_entry("$5M")>>

\* the scenario of the revenue question
C12_Witness ==
    \E s \in Sessions :
        /\ Returned(s)
        /\ before[s].chat_history = <<>>
        /\ before[s].pdf_content = "Revenue: $5M"
        /\ message[s] = "what is the revenue?"
        /\ out[s] = <<Message("$5M")>>
        /\ Len(calls[s]) = 1
        /\ Len(storedHistory(s)) = 2

\* list a is a leading part of list b
IsPrefix(a, b) == Len(a) <= Len(b) /\ SubSeq(b, 1, Len(a)) = a

\* C13: history is append-only for the life of a session: every step leaves
\* the stored history an extension of what it was (nothing removed,
\* reordered or rewritten), and a step that clears or replaces documentText
\* leaves the stored history as it was.
C13_HistoryAppendOnly ==
    [][\A s \in Sessions :
          pc[s] # "none"
          => /\ IsPrefix(user_session[s].chat_history, user_session'[s].chat_history)
             /\ user_session'[s].pdf_content # user_session[s].pdf_content
                => user_session'[s].chat_history = user_session[s].chat_history]_vars

\* the document cleared by a switch-document phrase, the history, left
\* asymmetric by a failed query, still there
C13_Witness ==
    \E s \in Sessions :
        /\ Returned(s)
        /\ message[s] \in SwitchDocumentMessages
        /\ before[s].pdf_content # ""
        /\ documentText(s) = ""
        /\ Len(storedHistory(s)) = 3

\* What belongs to session s alone: its store and its handler's position,
\* locals, output and inputs
SessionState(s) ==
    <<user_session[s], pc[s], message[s], history[s], aliased[s], pdf_text[s],
      thinking[s], handler[s], out[s], calls[s], before[s], uploaded[s], raised[s]>>

\* C14: with two sessions running at once, a step of one session (chat
\* start, a message, an upload, a completion result) never changes the
\* documentText or history of the other: a step that changes the store of
\* session t is a step of t and of no other session.
C14_SessionsIsolated ==
    [][\A t \in AllSessions :
          user_session'[t] # user_session[t]
          => \A s \in AllSessions \ {t} : SessionState(s)' = SessionState(s)]_vars

\* session 1 inside its completion call while session 2 holds another
\* document and a history of its own
C14_Witness ==
    /\ pc[1] = "completion"
    /\ user_session[1].pdf_content = "Revenue: $5M"
    /\ pc[2] = "idle"
    /\ user_session[2].pdf_content = "Costs: $2M"
    /\ Len(user_session[2].chat_history) = 2

\* C15: on chat end the JSON array written to chat_history.json holds the
\* session's history, entry by entry and in order, the unanswered user
\* entry of a failed query included: chat end right after a failed query
\* writes the prior history followed by that query's user entry.
C15_SavedFileHoldsFailedQuery ==
    \A s \in Sessions :
        (pc[s] = "ended" /\ thinking[s] = 1 /\ calls[s] # <<>> /\ raised[s] # "")
        => saved = json_dump(Append(before[s].chat_history, user_entry(CombinedPrompt(s))))

\* C17: documentText goes from empty to non-empty only by the extraction of
\* a file received in AWAITING_UPLOAD, from non-empty to empty only by an
\* upload-intent phrase or a switch-document phrase, and never from one
\* non-empty text to another; no other step changes it.
C17_ModeChangesOnlyAsListed ==
    [][\A s \in Sessions :
          pc[s] # "none"
          => LET old == user_session[s].pdf_content
                 new == user_session'[s].pdf_content
             IN  /\ (old = "" /\ new # "")
                    => /\ pc[s] = "ask_file"
                       /\ before[s].pdf_content = ""
                       /\ uploaded'[s] # <<>>
                       /\ new = extract_text_from_pdf(uploaded'[s][1])
                 /\ (old # "" /\ new = "")
                    => \/ pc[s] = "idle" /\ message'[s] \in UploadIntentMessages
                       \/ pc[s] = "process_query" /\ message[s] \in SwitchDocumentMessages
                 /\ (old # "" /\ new # "") => new = old]_vars

\* a second document loaded after the first was asked about and given up
C17_Witness ==
    \E s \in Sessions :
        /\ pc[s] = "idle"
        /\ documentText(s) = "Costs: $2M"
        /\ storedHistory(s) # <<>>
        /\ storedHistory(s)[1].content = prompt("Revenue: $5M", "what is the revenue?")

\* C18: with one message of a session handled at a time, the query handler
\* is entered, and the completion call made, only with a non-empty
\* documentText; the "No PDF content available" message is never sent.
C18_QueryHandlerOnlyWhenReady ==
    \A s \in Sessions :
        /\ pc[s] \in {"process_query", "completion"} => documentText(s) # ""
        /\ calls[s] # <<>> => before[s].pdf_content # ""
        /\ \A i \in 1..Len(out[s]) : out[s][i] # Message(no_pdf_msg)

\* the query handler entered on a second document, with a history
C18_Witness ==
    \E s \in Sessions :
        /\ pc[s] = "process_query"
        /\ documentText(s) = "Costs: $2M"
        /\ storedHistory(s) # <<>>
        /\ out[s] = <<Message("Thinking...")>>

\* The page texts from page i on, joined in page order
RECURSIVE PageConcat(_, _)
PageConcat(pages, i) ==
    IF i > Len(pages) THEN "" ELSE pages[i] \o PageConcat(pages, i + 1)

\* The full texts of the PDFs of SpecExtract
FullTexts == {PageConcat(p, 1) : p \in PageLists}

\* C19: extraction is all-or-nothing: whatever PDF was received and wherever
\* opening it or reading a page failed, the extractor's result is the
\* concatenation of all page texts in page order (nothing failed) or the
\* empty string (something failed), never the text of the pages before the
\* failure; so documentText is empty or the full text of one PDF.
C19_ExtractionAllOrNothing ==
    \A s \in Sessions :
        /\ uploaded[s] # <<>>
           => LET pdf == uploaded[s][1]
                  full == PageConcat(pdf.pages, 1)
              IN  /\ pdf_text[s] \in {"", full}
                  /\ (pdf.opens /\ pdf.bad = 0) => pdf_text[s] = full
                  /\ (~pdf.opens \/ pdf.bad # 0) => pdf_text[s] = ""
        /\ pc[s] # "none" => documentText(s) \in {""} \cup FullTexts

\* reading page 2 failed after page 1 gave text
C19_Witness ==
    \E s \in Sessions :
        /\ uploaded[s] # <<>>
        /\ uploaded[s][1].opens
        /\ uploaded[s][1].bad = 2
        /\ Len(uploaded[s][1].pages) = 3
        /\ uploaded[s][1].pages[1] = "Revenue: "
        /\ pdf_text[s] = ""
        /\ out[s] = <<AskFileMessage, Message(extract_error_msg)>>

====
